---- MODULE Spec2Model ----
(***************************************************************************)
(* Statement parsing and cumulative aggregation of xls-converter:          *)
(*   src/server.js            POST /api/statement/parse (upload to the     *)
(*                            temporary directory, row loop, period,       *)
(*                            daily buckets, totals, response, unlink)     *)
(*   src/utils/cumulative.js  buildCumulativeTimeline,                     *)
(*                            attachDailyCumulativeClose                   *)
(*                                                                         *)
(* Representation.                                                         *)
(*  - Money is an integer number of thousandths (0.001) of a currency      *)
(*    unit, so that amounts with more than two decimals exist and the      *)
(*    two-decimal roundings of the code (round2, toFixed(2)) are real      *)
(*    roundings.  Arithmetic is exact decimal arithmetic.                  *)
(*  - An instant is a number of milliseconds counted from 00:00:00.000 of  *)
(*    calendar day 0 on the wall clock of the configured zone              *)
(*    (Asia/Bishkek, a fixed +06:00 offset).                               *)
(*  - An ISO string "YYYY-MM-DDTHH:mm:ss.SSS+06:00" is the record          *)
(*    [d |-> calendar day, ms |-> millisecond of that day].                *)
(*  - A calendar-day string "YYYY-MM-DD" is the number of the day; the     *)
(*    lexicographic order of such strings is the order of the numbers.     *)
(*  - A spreadsheet cell is a record tagged by k (see the cell section).   *)
(***************************************************************************)
EXTENDS Integers, Sequences, FiniteSets, TLC

\* ------------------------------------------------------------------ bounds
MaxRows == 2
MaxDay == 3
MaxTx == 3

\* ------------------------------------------------------------ time helpers
ZoneOffsetHours == 6
HourMs == 60 * 60 * 1000
DayMs == 24 * HourMs

\* The offsets (hours east of UTC) of the wall clock of the host process.
HostOffsets == {0, 6}

\* DateTime.fromISO(iso, {zone}).toMillis()
Millis(iso) == iso.d * DayMs + iso.ms

\* DateTime#toISO() of an instant, in the configured zone
ToISO(t) == [d |-> t \div DayMs, ms |-> t % DayMs]

\* DateTime.fromISO(date, {zone}).startOf('day').toMillis()
StartOfDay(day) == day * DayMs

\* EndOfDay taken at 23:59:59.000.
EndOfDayNoMillis(day) == day * DayMs + (DayMs - 1000)

\* d.endOf('day').toMillis(): 23:59:59.999 of the day
EndOfDay(day) == day * DayMs + (DayMs - 1)

\* ------------------------------------------------------------------ cells
\* What pick() returns for a column the row does not have.
Undef == [k |-> "undef"]
\* The default value of an empty cell (sheet_to_json defval: '').
Empty == [k |-> "empty"]
\* A string that is neither a date, a time nor a number, such as "abc".
Text == [k |-> "text"]
\* A date-only string "DD.MM.YYYY" / "YYYY-MM-DD" of calendar day d.
DateStr(d) == [k |-> "dateStr", d |-> d]
\* A date-time string "DD.MM.YYYY HH:mm[:ss]" / "YYYY-MM-DD HH:mm[:ss]".
DateTimeStr(d, h) == [k |-> "dateTimeStr", d |-> d, h |-> h]
\* A native Date cell holding instant t.
JsDate(t) == [k |-> "jsdate", t |-> t]
\* A number cell holding an Excel serial: day d plus a fraction of a day.
Serial(d, fracMs) == [k |-> "serial", d |-> d, fracMs |-> fracMs]
\* A time string "H:MM" with hour h (h may be out of range, as in "25:00").
TimeStr(h) == [k |-> "timeStr", h |-> h]
\* A string cell that reads as the decimal number n (in thousandths).
NumStr(n) == [k |-> "numStr", n |-> n]
\* A number cell of value n (in thousandths).
Num(n) == [k |-> "num", n |-> n]

\* Header names of the columns the rows of the model carry.
DateHeader == "Date"
TimeHeader == "Time"
IncomeHeader == "Debit"
ExpenseHeader == "Credit"

\* COLS: the candidate header names of each semantic field, in priority order
\* (the candidates that none of the model's rows carries are left out).
ColsDate == <<"Operation date", "Posting date", "Date">>
ColsTime == <<"Time", "Operation time", "Transaction time">>
ColsDebitIsIncomeKeys == <<"Debit">>
ColsCreditIsExpenseKeys == <<"Credit">>

\* k.toLowerCase().trim() over the header names of the model.
LowerTrim(h) ==
    CASE h \in {"Date", "date", " Date ", "DATE"} -> "date"
      [] h \in {"Time", "time"} -> "time"
      [] h \in {"Debit", "debit"} -> "debit"
      [] h \in {"Credit", "credit"} -> "credit"
      [] h = "Operation date" -> "operation date"
      [] h = "Posting date" -> "posting date"
      [] h = "Operation time" -> "operation time"
      [] h = "Transaction time" -> "transaction time"
      [] OTHER -> h

\* k.toLowerCase() (no trim) of a candidate key
Lower(h) ==
    CASE h = " Date " -> " date "
      [] OTHER -> LowerTrim(h)

\* A row is a sequence of [h |-> header, v |-> cell] in column order.
\* Object.fromEntries(...): for each normalised header, the LAST column of the
\* row with that normalised header (later entries overwrite earlier ones).
HeaderMapHit(row, key) ==
    LET idx == {j \in 1..Len(row) : LowerTrim(row[j].h) = key}
    IN  IF idx = {} THEN 0 ELSE CHOOSE j \in idx : \A j2 \in idx : j2 <= j

RECURSIVE PickFrom(_, _, _)
PickFrom(row, keys, n) ==
    IF n > Len(keys) THEN Undef
    ELSE LET hit == HeaderMapHit(row, Lower(keys[n]))
         IN  IF hit # 0 THEN row[hit].v ELSE PickFrom(row, keys, n + 1)

pick(row, keys) == PickFrom(row, keys, 1)

\* -------------------------------------------------------------- parseKgsNumber
NaN == [nan |-> TRUE, v |-> 0]
Val(n) == [nan |-> FALSE, v |-> n]

parseKgsNumber(val) ==
    CASE val.k = "num" -> Val(val.n)
      [] val.k = "numStr" -> Val(val.n)
      [] val.k \in {"text", "dateStr", "dateTimeStr", "timeStr", "empty"} -> NaN
      [] OTHER -> NaN

\* Number(x) || 0
NumberOrZero(x) == IF x.nan THEN 0 ELSE x.v

\* --------------------------------------------------------- normalizeTimeFromAny
\* The result is "HH:mm:ss" as [h, m, s], or null.
Null == [k |-> "null"]

normalizeTimeFromAny(timeRaw) ==
    CASE timeRaw.k = "num" ->
           LET totalSec == (timeRaw.n * 24 * 3600 + 500) \div 1000
           IN  [k |-> "hms", h |-> totalSec \div 3600,
                m |-> (totalSec % 3600) \div 60, s |-> totalSec % 60]
      [] timeRaw.k = "timeStr" -> [k |-> "hms", h |-> timeRaw.h, m |-> 0, s |-> 0]
      [] OTHER -> Null

\* timeRaw !== undefined && timeRaw !== null && String(timeRaw).trim() !== ''
TimePresent(timeRaw) == timeRaw.k \notin {"undef", "empty"}

\* DateTime.fromISO(`${date}T${HH:mm:ss}`, {zone}): the ISO string of the
\* composed instant, or null when the time of day is out of range.
Compose(day, t) ==
    IF t.h <= 23 /\ t.m <= 59 /\ t.s <= 59
    THEN ToISO(StartOfDay(day) + t.h * HourMs + t.m * 60000 + t.s * 1000)
    ELSE Null

\* ------------------------------------------------------------------ buildTsISO
\* SynthHour without the modulo: the hour grows with the index.
SynthHourUnwrapped(index) == 9 + index

\* const hour = 9 + (index % 9)
SynthHour(index) == 9 + (index % 9)

buildTsISO(dateRaw, timeRaw, index) ==
    CASE dateRaw.k = "jsdate" ->
           LET dt == ToISO(dateRaw.t)
               t == normalizeTimeFromAny(timeRaw)
           IN  IF dt.ms < 1000 /\ TimePresent(timeRaw) /\ t # Null
               THEN Compose(dt.d, t)
               ELSE dt
      [] dateRaw.k = "serial" ->
           LET dt == ToISO(StartOfDay(dateRaw.d) + dateRaw.fracMs)
               t == normalizeTimeFromAny(timeRaw)
           IN  IF TimePresent(timeRaw) /\ t # Null
               THEN Compose(dt.d, t)
               ELSE dt
      [] dateRaw.k = "dateTimeStr" ->
           Compose(dateRaw.d, [k |-> "hms", h |-> dateRaw.h, m |-> 0, s |-> 0])
      [] dateRaw.k = "dateStr" ->
           LET given == IF TimePresent(timeRaw)
                        THEN normalizeTimeFromAny(timeRaw) ELSE Null
               timePart == IF given = Null
                           THEN [k |-> "hms", h |-> SynthHour(index), m |-> 0, s |-> 0]
                           ELSE given
           IN  Compose(dateRaw.d, timePart)
      [] OTHER -> Null

\* ------------------------------------------------------------------------ ymd
\* DateTime.fromISO(tsISO, {zone}).toJSDate() followed by ymd(): the calendar
\* day of the instant on the wall clock of the HOST process (getFullYear,
\* getMonth and getDate read the local time of the process), whose offset
\* from UTC is hostOff hours.
ymd(tsISO, hostOff) ==
    (Millis(tsISO) + (hostOff - ZoneOffsetHours) * HourMs) \div DayMs

\* ---------------------------------------------------------------- the row loop
\* Rows of the uploaded sheet (rowsFixed): the cells the columns may hold.
\* The date and time cells of a row with a date: a date-only string of each
\* day without a time column, and a date-only string of day 1 with the time
\* cell "02:00".
WhenCells ==
    {<<DateStr(day), Undef>> : day \in 1..MaxDay} \cup {<<DateStr(1), TimeStr(2)>>}

\* The income and expense cells of a row: none; 0.004 in; 0.006 out; 5.00 in;
\* 2.00 out; 2.00 in and 2.00 out on the same row.
AmountCells ==
    {<<Empty, Text>>, <<NumStr(4), Text>>, <<Empty, NumStr(6)>>,
     <<Num(5000), Empty>>, <<Empty, Num(2000)>>, <<Num(2000), Num(2000)>>}

\* The cells of a row whose date cell is no date: without and with an amount.
UndatedCells == {<<Empty, Text>>, <<Num(5000), Empty>>}

MkRow(dc, tc, ic, ec) ==
    (IF tc = Undef THEN <<[h |-> DateHeader, v |-> dc]>>
     ELSE <<[h |-> DateHeader, v |-> dc], [h |-> TimeHeader, v |-> tc]>>)
    \o <<[h |-> IncomeHeader, v |-> ic], [h |-> ExpenseHeader, v |-> ec]>>

Rows ==
    {MkRow(w[1], w[2], a[1], a[2]) : w \in WhenCells, a \in AmountCells}
        \cup {MkRow(Text, Undef, a[1], a[2]) : a \in UndatedCells}

RowSeqs == UNION {[1..n -> Rows] : n \in 0..MaxRows}

VARIABLES
    entry,          \* "parse": a request to /api/statement/parse; "engine": a direct call of the exported functions
    pc,             \* the place of the request in the handler
    hostOff,        \* the offset of the wall clock of the host process
    rowsFixed,      \* the rows of the sheet
    i,              \* the row loop's index
    transactions,   \* the transactions emitted so far
    period,         \* {from, to}
    dailySpending,  \* the daily buckets
    totals,
    cumPeriod,      \* the period argument of attachDailyCumulativeClose
    cumTx,          \* the transactions argument of the cumulative engine
    timeline,       \* the result of buildCumulativeTimeline
    sorted,         \* attachDailyCumulativeClose: the ts-sorted list
    running,        \* ... the running total
    ti,             \* ... the pointer into sorted
    d,              \* ... the day of the loop
    result,         \* ... the entries pushed so far
    dailyCum,       \* the value attachDailyCumulativeClose returned
    response,       \* the response sent
    now,            \* Date.now() of the process, in milliseconds
    tmpdir,         \* os.tmpdir(): the content of each path, NoFile when there is none
    req             \* the requests with an upload: place, file name, body, path, response

vars == <<entry, pc, hostOff, rowsFixed, i, transactions, period, dailySpending,
          totals, cumPeriod, cumTx, timeline, sorted, running, ti, d, result,
          dailyCum, response, now, tmpdir, req>>

rowVars == <<rowsFixed, i, transactions>>
aggVars == <<period, dailySpending, totals>>
sweepVars == <<sorted, running, ti, d, result>>
uploadVars == <<now, tmpdir, req>>


\* The fields of one row as the loop body resolves them (lines 341-357).
RowTs(r, index) == buildTsISO(pick(r, ColsDate), pick(r, ColsTime), index)
RowIncome(r) == NumberOrZero(parseKgsNumber(pick(r, ColsDebitIsIncomeKeys)))
RowExpense(r) == NumberOrZero(parseKgsNumber(pick(r, ColsCreditIsExpenseKeys)))

\* The two `continue` tests of the loop body.
RowSkipped(r, index) ==
    \/ RowTs(r, index) = Null
    \/ (RowIncome(r) <= 0 /\ RowExpense(r) <= 0)

\* MkTransaction with the direction test written `amount <= 0`.
MkTransactionZeroIsDebit(r, index, host) ==
    LET income == RowIncome(r)
        expense == RowExpense(r)
        amount == income - expense
        tsISO == RowTs(r, index)
    IN  [ts |-> tsISO,
         date |-> ymd(tsISO, host),
         amount |-> amount,
         credit |-> income,
         debit |-> expense,
         direction |-> IF amount <= 0 THEN "debit" ELSE "credit"]

\* The record pushed for a row that is not skipped.
MkTransaction(r, index, host) ==
    LET income == RowIncome(r)
        expense == RowExpense(r)
        amount == income - expense
        tsISO == RowTs(r, index)
    IN  [ts |-> tsISO,
         date |-> ymd(tsISO, host),
         amount |-> amount,
         credit |-> income,
         debit |-> expense,
         direction |-> IF amount < 0 THEN "debit" ELSE "credit"]

\* ------------------------------------------------------------------ rounding
\* round2(n) = Math.round((n + Number.EPSILON) * 100) / 100: to the nearest
\* hundredth, a half going up.
round2(n) == ((n + 5) \div 10) * 10

\* Number(n.toFixed(2)): to the nearest hundredth, a half going away from zero.
toFixed2(n) == IF n >= 0 THEN ((n + 5) \div 10) * 10 ELSE 0 - (((0 - n) + 5) \div 10) * 10

\* --------------------------------------------------------------- sequence sums
RECURSIVE SumCredit(_)
SumCredit(txs) == IF txs = <<>> THEN 0 ELSE Head(txs).credit + SumCredit(Tail(txs))

RECURSIVE SumDebit(_)
SumDebit(txs) == IF txs = <<>> THEN 0 ELSE Head(txs).debit + SumDebit(Tail(txs))

RECURSIVE SumAmount(_)
SumAmount(txs) == IF txs = <<>> THEN 0 ELSE Head(txs).amount + SumAmount(Tail(txs))

\* ----------------------------------------------------------------------- period
NullDay == -1000

NullPeriod == [from |-> NullDay, to |-> NullDay]

\* ComputePeriod without the sort: the dates of the first and last transaction.
ComputePeriodUnsorted(txs) ==
    IF Len(txs) = 0 THEN NullPeriod
    ELSE [from |-> txs[1].date, to |-> txs[Len(txs)].date]

\* transactions.map(t => t.date).sort(): first and last element
ComputePeriod(txs) ==
    IF Len(txs) = 0 THEN NullPeriod
    ELSE LET dates == {txs[j].date : j \in 1..Len(txs)}
         IN  [from |-> CHOOSE x \in dates : \A y \in dates : x <= y,
              to |-> CHOOSE x \in dates : \A y \in dates : y <= x]

\* ------------------------------------------------------------------------ byDay
\* byDay.get(day).credit after the loop over the transactions: the positive
\* amounts of the day.
RECURSIVE ByDayCredit(_, _)
ByDayCredit(txs, day) ==
    IF txs = <<>> THEN 0
    ELSE (IF Head(txs).date = day /\ Head(txs).amount > 0 THEN Head(txs).amount ELSE 0)
         + ByDayCredit(Tail(txs), day)

\* byDay.get(day).debit: the absolute values of the negative amounts of the day.
RECURSIVE ByDayDebit(_, _)
ByDayDebit(txs, day) ==
    IF txs = <<>> THEN 0
    ELSE (IF Head(txs).date = day /\ Head(txs).amount < 0 THEN 0 - Head(txs).amount ELSE 0)
         + ByDayDebit(Tail(txs), day)

\* The bucket pushed for one day of the period.
DailyBucket(txs, day) ==
    LET credit == ByDayCredit(txs, day)
        debit == ByDayDebit(txs, day)
    IN  [date |-> day,
         credit |-> toFixed2(credit),
         debit |-> toFixed2(debit),
         net |-> toFixed2(credit - debit),
         amount |-> toFixed2(debit)]

\* The gap-filling loop: one bucket per day from `from` to `to`.
BuildDailySpending(txs, p) ==
    IF p.from = NullDay \/ p.to = NullDay \/ p.to < p.from THEN <<>>
    ELSE [k \in 1..(p.to - p.from + 1) |-> DailyBucket(txs, p.from + k - 1)]

\* ----------------------------------------------------------------------- totals
\* ComputeTotals with net taken from the rounded credits and debits.
ComputeTotalsNetOfRounded(txs) ==
    LET credits == SumCredit(txs)
        debits == SumDebit(txs)
        expenses == toFixed2(debits)
    IN  [credits |-> toFixed2(credits),
         debits |-> toFixed2(debits),
         net |-> toFixed2(credits) - toFixed2(debits),
         expenses |-> expenses,
         spending |-> expenses]

ComputeTotals(txs) ==
    LET credits == SumCredit(txs)
        debits == SumDebit(txs)
        net == credits - debits
        expenses == toFixed2(debits)
    IN  [credits |-> toFixed2(credits),
         debits |-> toFixed2(debits),
         net |-> toFixed2(net),
         expenses |-> expenses,
         spending |-> expenses]

\* ------------------------------------------------------------ cumulative engine
\* [...transactions].sort((a, b) => millis(a.ts) - millis(b.ts)): Array#sort is
\* stable, so an element goes after every element whose ts is not later.
\* InsertByTs with the comparison written `<`: equal instants change places.
RECURSIVE InsertByTsTiesSwapped(_, _)
InsertByTsTiesSwapped(s, t) ==
    IF s = <<>> THEN <<t>>
    ELSE IF Millis(Head(s).ts) < Millis(t.ts)
         THEN <<Head(s)>> \o InsertByTsTiesSwapped(Tail(s), t)
         ELSE <<t>> \o s

RECURSIVE InsertByTs(_, _)
InsertByTs(s, t) ==
    IF s = <<>> THEN <<t>>
    ELSE IF Millis(Head(s).ts) <= Millis(t.ts)
         THEN <<Head(s)>> \o InsertByTs(Tail(s), t)
         ELSE <<t>> \o s

\* SortByTs without the sort: the list as given.
SortByTsNone(txs) == txs

RECURSIVE SortByTs(_)
SortByTs(txs) ==
    IF txs = <<>> THEN <<>>
    ELSE InsertByTs(SortByTs(SubSeq(txs, 1, Len(txs) - 1)), txs[Len(txs)])

\* RunningPoints without the carry: each point holds its own amount.
RunningPointsNoCarry(s) ==
    [k \in 1..Len(s) |-> [ts |-> s[k].ts, cumulative |-> round2(s[k].amount)]]

\* sorted.map(t => { running += t.amount; return {ts, cumulative: round2(running)} })
RunningPoints(s) ==
    [k \in 1..Len(s) |-> [ts |-> s[k].ts, cumulative |-> round2(SumAmount(SubSeq(s, 1, k)))]]

buildCumulativeTimeline(txs) == RunningPoints(SortByTs(txs))

\* transactions.map(t => ({ ts: t.ts, amount: t.amount }))
TsAmount(txs) == [k \in 1..Len(txs) |-> [ts |-> txs[k].ts, amount |-> txs[k].amount]]

\* byDateCum.get(date) ?? 0
CumOf(cum, day) ==
    LET idx == {k \in 1..Len(cum) : cum[k].date = day}
    IN  IF idx = {} THEN 0 ELSE cum[CHOOSE k \in idx : \A k2 \in idx : k2 <= k].cumulativeClose

\* dailySpending.map(d => ({...d, cumulativeClose: Number(cum.toFixed(2))}))
MixCum(daily, cum) ==
    [k \in 1..Len(daily) |->
        [date |-> daily[k].date, credit |-> daily[k].credit, debit |-> daily[k].debit,
         net |-> daily[k].net, amount |-> daily[k].amount,
         cumulativeClose |-> toFixed2(CumOf(cum, daily[k].date))]]

\* ------------------------------------------------------- inputs of a direct call
\* 02:00 of day 0, 23:59:59.999 of day 1 and 00:00:00.000 of day 2.
EngineTs == {ToISO(2 * HourMs), ToISO(2 * DayMs - 1), ToISO(2 * DayMs)}
EngineAmounts == {4, -6}
EngineTx == [ts : EngineTs, amount : EngineAmounts]
EngineTxSeqs == UNION {[1..n -> EngineTx] : n \in 0..MaxTx}
EngineDays == {0, 1, 2, 3}

NoResponse == [status |-> 0]

\* ------------------------------------------------- the functions taken as a whole
\* The row loop from row `index` on: the transactions pushed, in row order.
RECURSIVE RowLoop(_, _, _)
RowLoop(rows, index, host) ==
    IF index >= Len(rows) THEN <<>>
    ELSE (IF RowSkipped(rows[index + 1], index) THEN <<>>
          ELSE <<MkTransaction(rows[index + 1], index, host)>>)
         \o RowLoop(rows, index + 1, host)

\* The inner while of attachDailyCumulativeClose from pointer t on: the pointer
\* it leaves for the day.
RECURSIVE AbsorbUpTo(_, _, _)
AbsorbUpTo(s, t, day) ==
    IF t < Len(s) /\ Millis(s[t + 1].ts) <= EndOfDay(day)
    THEN AbsorbUpTo(s, t + 1, day)
    ELSE t

\* The loop over the days from `day` on, with pointer t and running total run.
RECURSIVE SweepDays(_, _, _, _, _)
SweepDays(s, day, to, t, run) ==
    IF ~(day <= to) THEN <<>>
    ELSE LET t2 == AbsorbUpTo(s, t, day)
             run2 == run + SumAmount(SubSeq(s, t + 1, t2))
         IN  <<[date |-> day, cumulativeClose |-> round2(run2)]>>
                 \o SweepDays(s, day + 1, to, t2, run2)

attachDailyCumulativeClose(p, txs) == SweepDays(SortByTs(txs), p.from, p.to, 0, 0)

\* The body of the handler from the rows of the sheet to res.json (lines 339-479).
ParseStatement(rows, host) ==
    LET txs == RowLoop(rows, 0, host)
        p == ComputePeriod(txs)
        daily == BuildDailySpending(txs, p)
        has == Len(txs) > 0 /\ p.from # NullDay /\ p.to # NullDay
    IN  [status |-> 200,
         period |-> p,
         dailySpending |-> IF has
                           THEN MixCum(daily, attachDailyCumulativeClose(p, TsAmount(txs)))
                           ELSE daily,
         transactions |-> txs,
         timeline |-> IF has THEN buildCumulativeTimeline(TsAmount(txs)) ELSE <<>>,
         totals |-> ComputeTotals(txs)]

\* ------------------------------------------------------------------ the upload
\* The last value of Date.now() a run looks at.
MaxClock == 1

\* The requests in flight with an upload.
Reqs == {1, 2}

\* file.originalname of an upload (the fileFilter lets only *.xls through).
OriginalNames == {"may 2025.xls", "may_2025.xls", "june.xls"}

\* (file.originalname || 'upload').replace(/\s+/g, '_')
Underscored(name) ==
    CASE name = "may 2025.xls" -> "may_2025.xls"
      [] OTHER -> name

\* `${Date.now()}_${base}` in os.tmpdir()
UploadPath(t, name) == [t |-> t, base |-> Underscored(name)]

Paths == [t : 0..MaxClock, base : {Underscored(n) : n \in OriginalNames}]

NoPath == [t |-> -1, base |-> ""]
NoFile == [exists |-> FALSE, data |-> <<>>]
FileOf(data) == [exists |-> TRUE, data |-> data]

\* The sheets a client uploads: one row of 5.00 in on day 1; one row of 2.00
\* out on day 2.
Statements ==
    {<<MkRow(DateStr(1), Undef, Num(5000), Empty)>>,
     <<MkRow(DateStr(2), Undef, Empty, Num(2000))>>}

\* res.status(500).json({error: 'PARSE_FAILED'})
ParseFailed == [status |-> 500]

NoRequest == [pc |-> "none", originalname |-> "", body |-> <<>>, path |-> NoPath,
              response |-> NoResponse]

\* ---------------------------------------------------------------------- Init
\* The locals of a handler that has not run.
InitHandler ==
    /\ i = 0
    /\ transactions = <<>>
    /\ period = NullPeriod
    /\ dailySpending = <<>>
    /\ totals = ComputeTotals(<<>>)
    /\ timeline = <<>>
    /\ sorted = <<>>
    /\ running = 0
    /\ ti = 0
    /\ d = 0
    /\ result = <<>>
    /\ dailyCum = <<>>
    /\ response = NoResponse

\* No upload is modelled: the rows are given to the row loop as read.
NoUploads ==
    /\ now = 0
    /\ tmpdir = [p \in Paths |-> NoFile]
    /\ req = [r \in Reqs |-> NoRequest]

\* A request to /api/statement/parse whose sheet has the rows of one of seqs,
\* on a host whose wall clock is at one of hosts.
InitParse(seqs, hosts) ==
    /\ InitHandler
    /\ NoUploads
    /\ entry = "parse"
    /\ hostOff \in hosts
    /\ pc = "rows"
    /\ rowsFixed \in seqs
    /\ cumPeriod = NullPeriod
    /\ cumTx = <<>>

\* A direct call of the exported functions of utils/cumulative.js with one of
\* seqs for transactions.
InitEngine(seqs) ==
    /\ InitHandler
    /\ NoUploads
    /\ entry = "engine"
    /\ hostOff = ZoneOffsetHours
    /\ pc = "timeline"
    /\ rowsFixed = <<>>
    /\ cumTx \in seqs
    /\ cumPeriod \in [from : EngineDays, to : EngineDays]

Init == InitParse(RowSeqs, HostOffsets) \/ InitEngine(EngineTxSeqs)

\* ParseRow with `break` in the place of `continue`: a skipped row ends the loop.
ParseRowBreakOnSkip ==
    /\ pc = "rows"
    /\ i < Len(rowsFixed)
    /\ LET r == rowsFixed[i + 1]
       IN  /\ transactions' = IF RowSkipped(r, i) THEN transactions
                              ELSE Append(transactions, MkTransaction(r, i, hostOff))
           /\ i' = IF RowSkipped(r, i) THEN Len(rowsFixed) ELSE i + 1
    /\ UNCHANGED <<uploadVars, entry, pc, hostOff, rowsFixed, period, dailySpending, totals,
                   cumPeriod, cumTx, timeline, sweepVars, dailyCum, response>>

\* One iteration of `for (const [i, r] of rowsFixed.entries())`.
ParseRow ==
    /\ pc = "rows"
    /\ i < Len(rowsFixed)
    /\ LET r == rowsFixed[i + 1]
       IN  transactions' = IF RowSkipped(r, i) THEN transactions
                           ELSE Append(transactions, MkTransaction(r, i, hostOff))
    /\ i' = i + 1
    /\ UNCHANGED <<uploadVars, entry, pc, hostOff, rowsFixed, period, dailySpending, totals,
                   cumPeriod, cumTx, timeline, sweepVars, dailyCum, response>>

\* Period, daily buckets and totals (lines 374-424), after the last row.
Aggregate ==
    /\ pc = "rows"
    /\ i = Len(rowsFixed)
    /\ period' = ComputePeriod(transactions)
    /\ dailySpending' = BuildDailySpending(transactions, period')
    /\ totals' = ComputeTotals(transactions)
    /\ pc' = IF Len(transactions) > 0 /\ period'.from # NullDay /\ period'.to # NullDay
             THEN "cumulative" ELSE "respond"
    /\ UNCHANGED <<uploadVars, entry, hostOff, rowVars, cumPeriod, cumTx, timeline, sweepVars,
                   dailyCum, response>>

\* The arguments the handler hands to the cumulative engine (lines 430-439).
EnterCumulative ==
    /\ pc = "cumulative"
    /\ cumTx' = TsAmount(transactions)
    /\ cumPeriod' = period
    /\ pc' = "timeline"
    /\ UNCHANGED <<uploadVars, entry, hostOff, rowVars, aggVars, timeline, sweepVars, dailyCum,
                   response>>

\* buildCumulativeTimeline(cumTx)
CallBuildTimeline ==
    /\ pc = "timeline"
    /\ timeline' = buildCumulativeTimeline(cumTx)
    /\ pc' = "sweepInit"
    /\ UNCHANGED <<uploadVars, entry, hostOff, rowVars, aggVars, cumPeriod, cumTx, sweepVars,
                   dailyCum, response>>

\* attachDailyCumulativeClose, lines 29-42: start, end, sorted, running, ti, d.
SweepInit ==
    /\ pc = "sweepInit"
    /\ sorted' = SortByTs(cumTx)
    /\ result' = <<>>
    /\ running' = 0
    /\ ti' = 0
    /\ d' = cumPeriod.from
    /\ pc' = "sweep"
    /\ UNCHANGED <<uploadVars, entry, hostOff, rowVars, aggVars, cumPeriod, cumTx, timeline,
                   dailyCum, response>>

\* One iteration of the inner while that absorbs sorted[ti] (lines 44-48).
SweepAbsorb ==
    /\ pc = "sweep"
    /\ d <= cumPeriod.to
    /\ ti < Len(sorted)
    /\ Millis(sorted[ti + 1].ts) <= EndOfDay(d)
    /\ running' = running + sorted[ti + 1].amount
    /\ ti' = ti + 1
    /\ UNCHANGED <<uploadVars, entry, pc, hostOff, rowVars, aggVars, cumPeriod, cumTx, timeline,
                   sorted, d, result, dailyCum, response>>

\* SweepPush that starts the next day over: the pointer and the running total
\* go back to the start of the list.
SweepPushRescans ==
    /\ pc = "sweep"
    /\ d <= cumPeriod.to
    /\ ~(ti < Len(sorted) /\ Millis(sorted[ti + 1].ts) <= EndOfDay(d))
    /\ result' = Append(result, [date |-> d, cumulativeClose |-> round2(running)])
    /\ d' = d + 1
    /\ ti' = 0
    /\ running' = 0
    /\ UNCHANGED <<uploadVars, entry, pc, hostOff, rowVars, aggVars, cumPeriod, cumTx,
                   timeline, sorted, dailyCum, response>>

\* The inner while ends (the list is used up, or the break); the day's entry
\* is pushed and the loop goes to the next day (lines 49-54).
SweepPush ==
    /\ pc = "sweep"
    /\ d <= cumPeriod.to
    /\ ~(ti < Len(sorted) /\ Millis(sorted[ti + 1].ts) <= EndOfDay(d))
    /\ result' = Append(result, [date |-> d, cumulativeClose |-> round2(running)])
    /\ d' = d + 1
    /\ UNCHANGED <<uploadVars, entry, pc, hostOff, rowVars, aggVars, cumPeriod, cumTx, timeline,
                   sorted, running, ti, dailyCum, response>>

\* The loop over the days ends: return result (line 55).
SweepReturn ==
    /\ pc = "sweep"
    /\ ~(d <= cumPeriod.to)
    /\ dailyCum' = result
    /\ pc' = IF entry = "parse" THEN "mix" ELSE "done"
    /\ UNCHANGED <<uploadVars, entry, hostOff, rowVars, aggVars, cumPeriod, cumTx, timeline,
                   sweepVars, response>>

\* dailyWithCum (lines 442-446)
MixCumulative ==
    /\ pc = "mix"
    /\ dailySpending' = MixCum(dailySpending, dailyCum)
    /\ pc' = "respond"
    /\ UNCHANGED <<uploadVars, entry, hostOff, rowVars, period, totals, cumPeriod, cumTx, timeline,
                   sweepVars, dailyCum, response>>

\* res.json({period, dailySpending, transactions, timeline, totals})
Respond ==
    /\ pc = "respond"
    /\ response' = [status |-> 200, period |-> period, dailySpending |-> dailySpending,
                    transactions |-> transactions, timeline |-> timeline,
                    totals |-> totals]
    /\ pc' = "done"
    /\ UNCHANGED <<uploadVars, entry, hostOff, rowVars, aggVars, cumPeriod, cumTx, timeline,
                   sweepVars, dailyCum>>

Next ==
    \/ ParseRow
    \/ Aggregate
    \/ EnterCumulative
    \/ CallBuildTimeline
    \/ SweepInit
    \/ SweepAbsorb
    \/ SweepPush
    \/ SweepReturn
    \/ MixCumulative
    \/ Respond

Spec == Init /\ [][Next]_vars

\* ------------------------------------------------ rows with negative amounts
\* The income and expense cells of a row where a cell reads as a negative
\* number: -1.00 in with 2.00 out; 3.00 in with "-1" out; both negative; and
\* 5.00 in alone.
SignedAmountCells ==
    {<<Num(-1000), Num(2000)>>, <<Num(3000), NumStr(-1000)>>,
     <<Num(-1000), Num(-2000)>>, <<Num(5000), Empty>>}

SignedRows ==
    {MkRow(DateStr(day), Undef, a[1], a[2]) : day \in 1..MaxDay, a \in SignedAmountCells}

SignedRowSeqs == UNION {[1..n -> SignedRows] : n \in 0..MaxRows}

\* Requests whose sheets have such rows.
SignedSpec == InitParse(SignedRowSeqs, HostOffsets) /\ [][Next]_vars

\* ---------------------------------------------------- the three-row statement
MaxScenarioRows == 3

\* 01.01.2025 with "500" in; 01.01.2025 with "200" out; 03.01.2025 with "50"
\* out; none of them with a time.
ScenarioRow1 == MkRow(DateStr(1), Undef, NumStr(500000), Empty)
ScenarioRow2 == MkRow(DateStr(1), Undef, Empty, NumStr(200000))
ScenarioRow3 == MkRow(DateStr(3), Undef, Empty, NumStr(50000))
Scenario == <<ScenarioRow1, ScenarioRow2, ScenarioRow3>>

\* These rows and a row without a date, in any order and number.
ScenarioRows == {ScenarioRow1, ScenarioRow2, ScenarioRow3, MkRow(Text, Undef, Empty, Text)}
ScenarioRowSeqs == UNION {[1..n -> ScenarioRows] : n \in 0..MaxScenarioRows}

\* Hosts at UTC-6, UTC-4, UTC and UTC+6.
ScenarioHostOffsets == {-6, -4, 0, 6}

ScenarioSpec == InitParse(ScenarioRowSeqs, ScenarioHostOffsets) /\ [][Next]_vars

\* ------------------------------------------- rows with other header spellings
\* A row with the given date columns and 5.00 in.
PickRow(dateCols) ==
    dateCols \o <<[h |-> IncomeHeader, v |-> Num(5000)], [h |-> ExpenseHeader, v |-> Empty]>>

\* "Date" then " Date " (the same header but for whitespace); "Date" then
\* "Posting date" (an earlier candidate in a later column); "DATE" alone;
\* " Date " alone; no date column.
PickRows ==
    {PickRow(<<[h |-> "Date", v |-> DateStr(1)], [h |-> " Date ", v |-> DateStr(2)]>>),
     PickRow(<<[h |-> "Date", v |-> DateStr(1)], [h |-> "Posting date", v |-> DateStr(2)]>>),
     PickRow(<<[h |-> "DATE", v |-> DateStr(3)]>>),
     PickRow(<<[h |-> " Date ", v |-> DateStr(2)]>>),
     PickRow(<<[h |-> "Description", v |-> Text]>>)}

PickRowSeqs == UNION {[1..n -> PickRows] : n \in 0..MaxRows}

PickSpec == InitParse(PickRowSeqs, HostOffsets) /\ [][Next]_vars

\* ------------------------------------------------------ long untimed sheets
MaxSynthRows == 10

\* The kinds of row of such a sheet: a date with no time column; a date with
\* an empty time cell; a date with a time cell that is no time ("abc"); a date
\* with the time cell "02:00"; no date.
SynthRowKinds ==
    <<MkRow(DateStr(1), Undef, Num(5000), Empty),
      MkRow(DateStr(2), Empty, Empty, Num(2000)),
      MkRow(DateStr(1), Text, Num(5000), Empty),
      MkRow(DateStr(1), TimeStr(2), Num(5000), Empty),
      MkRow(Text, Undef, Num(5000), Empty)>>

\* n rows that go through the kinds in turn, from kind phase + 1 on.
SynthRowsOf(n, phase) ==
    [k \in 1..n |-> SynthRowKinds[((k - 1 + phase) % Len(SynthRowKinds)) + 1]]

SynthRowSeqs ==
    {SynthRowsOf(n, phase) : n \in 0..MaxSynthRows, phase \in 0..(Len(SynthRowKinds) - 1)}

SynthSpec == InitParse(SynthRowSeqs, HostOffsets) /\ [][Next]_vars

\* ------------------------------------------- the cumulative engine on its own
\* The steps of a direct call of buildCumulativeTimeline and
\* attachDailyCumulativeClose.
SweepNext ==
    \/ CallBuildTimeline
    \/ SweepInit
    \/ SweepAbsorb
    \/ SweepPush
    \/ SweepReturn

MaxSweepTx == 2

SweepTxSeqs == UNION {[1..n -> EngineTx] : n \in 0..MaxSweepTx}

\* The call runs on: both functions are synchronous code that nothing holds up.
SweepSpec == InitEngine(SweepTxSeqs) /\ [][SweepNext]_vars /\ WF_vars(SweepNext)

\* ------------------------------------------------- requests with an upload
\* Two requests to /api/statement/parse arrive, each with a file of its own.
UploadInit ==
    /\ InitHandler
    /\ entry = "upload"
    /\ pc = "idle"
    /\ hostOff = ZoneOffsetHours
    /\ rowsFixed = <<>>
    /\ cumPeriod = NullPeriod
    /\ cumTx = <<>>
    /\ now = 0
    /\ tmpdir = [p \in Paths |-> NoFile]
    /\ req \in [Reqs -> [pc : {"upload"}, originalname : OriginalNames,
                         body : Statements, path : {NoPath}, response : {NoResponse}]]

handlerVars == <<entry, pc, hostOff, rowVars, aggVars, cumPeriod, cumTx, timeline,
                 sweepVars, dailyCum, response>>

\* The clock of the process goes on by a millisecond.
Tick ==
    /\ entry = "upload"
    /\ now < MaxClock
    /\ now' = now + 1
    /\ UNCHANGED <<handlerVars, tmpdir, req>>

\* uploadXlsOnly.single('file'): the disk storage names the file
\* `${Date.now()}_${base}` in os.tmpdir() and writes the upload there, over
\* whatever the path holds; req.file.path is that path.
StoreFile(r) ==
    /\ entry = "upload"
    /\ req[r].pc = "upload"
    /\ LET path == UploadPath(now, req[r].originalname)
       IN  /\ tmpdir' = [tmpdir EXCEPT ![path] = FileOf(req[r].body)]
           /\ req' = [req EXCEPT ![r].pc = "handler", ![r].path = path]
    /\ UNCHANGED <<handlerVars, now>>

\* The handler: await fs.readFile(filepath), then the sheet is parsed and
\* answered; a path that holds no file throws, and the catch answers 500.
ReadAndRespond(r) ==
    /\ entry = "upload"
    /\ req[r].pc = "handler"
    /\ LET f == tmpdir[req[r].path]
       IN  req' = [req EXCEPT ![r].pc = "finally",
                              ![r].response = IF f.exists
                                              THEN ParseStatement(f.data, hostOff)
                                              ELSE ParseFailed]
    /\ UNCHANGED <<handlerVars, now, tmpdir>>

\* finally: try { await fs.unlink(req.file.path) } catch {}
Unlink(r) ==
    /\ entry = "upload"
    /\ req[r].pc = "finally"
    /\ tmpdir' = [tmpdir EXCEPT ![req[r].path] = NoFile]
    /\ req' = [req EXCEPT ![r].pc = "done"]
    /\ UNCHANGED <<handlerVars, now>>

UploadNext ==
    \/ Tick
    \/ \E r \in Reqs : StoreFile(r)
    \/ \E r \in Reqs : ReadAndRespond(r)
    \/ \E r \in Reqs : Unlink(r)

UploadSpec == UploadInit /\ [][UploadNext]_vars

\* ==================================================================== properties
\* Places of the run.
InParse == entry = "parse"
\* buildCumulativeTimeline has just returned timeline for cumTx.
TimelineBuilt == pc = "sweepInit"
\* attachDailyCumulativeClose has just returned dailyCum for (cumPeriod, cumTx).
SweepReturned == pc = "mix" \/ (pc = "done" /\ entry = "engine")
\* Period, buckets and totals have been computed from the transactions.
Aggregated == InParse /\ pc # "rows"

\* c is x rounded to two decimals (a multiple of 0.01 at most half of 0.01 away).
IsRounded(c, x) == c % 10 = 0 /\ c - x <= 5 /\ x - c <= 5
\* a and b differ by at most 0.01.
Within001(a, b) == a - b <= 10 /\ b - a <= 10

\* The place of txs[j] when txs is put in non-decreasing ts with equal ts kept
\* in input order: the number of elements that do not come after it.
Rank(txs, j) ==
    Cardinality({j2 \in 1..Len(txs) :
        \/ Millis(txs[j2].ts) < Millis(txs[j].ts)
        \/ (Millis(txs[j2].ts) = Millis(txs[j].ts) /\ j2 <= j)})

\* txs in that order.
InStableOrder(txs) ==
    [k \in 1..Len(txs) |-> txs[CHOOSE j \in 1..Len(txs) : Rank(txs, j) = k]]

\* The sum of the amounts of the first k elements of txs.
RECURSIVE PrefixSum(_, _)
PrefixSum(txs, k) == IF k = 0 THEN 0 ELSE txs[k].amount + PrefixSum(txs, k - 1)

\* The sum of the amounts of the elements of txs whose instant is <= limit.
RECURSIVE SumUpTo(_, _)
SumUpTo(txs, limit) ==
    IF txs = <<>> THEN 0
    ELSE (IF Head(txs).ts.d * DayMs + Head(txs).ts.ms <= limit THEN Head(txs).amount ELSE 0)
         + SumUpTo(Tail(txs), limit)

\* ---------------------------------------------------------------------------- C1
\* C1: every transaction the row loop has emitted has amount = credit - debit,
\* direction "debit" exactly when amount < 0 and "credit" otherwise (amount = 0
\* included), and credit and debit are not both zero.
C1_TransactionInvariant ==
    \A k \in 1..Len(transactions) :
        LET t == transactions[k]
        IN  /\ t.amount = t.credit - t.debit
            /\ (t.direction = "debit") = (t.amount < 0)
            /\ (t.direction = "credit") = (t.amount >= 0)
            /\ ~(t.credit = 0 /\ t.debit = 0)

\* A run that emitted a transaction of amount 0 (credit = debit > 0) and then
\* one of negative amount.
C1_Witness ==
    /\ Len(transactions) = 2
    /\ transactions[1].amount = 0 /\ transactions[1].credit > 0
    /\ transactions[2].amount < 0

\* ---------------------------------------------------------------------------- C2
\* C2 as stated: the timeline has one point per transaction, in non-decreasing
\* ts with equal ts in input order, and the k-th cumulative EQUALS the sum of
\* the first k amounts in that order.
C2_TimelineExactSum ==
    TimelineBuilt =>
        /\ Len(timeline) = Len(cumTx)
        /\ \A k \in 1..Len(cumTx) :
              /\ timeline[k].ts = InStableOrder(cumTx)[k].ts
              /\ timeline[k].cumulative = PrefixSum(InStableOrder(cumTx), k)

\* C2 amended: the timeline has one point per transaction, in non-decreasing
\* ts with equal ts in input order, the k-th cumulative is the sum of the
\* first k amounts in that order ROUNDED TO TWO DECIMALS, and the input put in
\* that order beforehand yields the same timeline.
C2_TimelineRoundedSum ==
    TimelineBuilt =>
        LET ordered == InStableOrder(cumTx)
        IN  /\ Len(timeline) = Len(cumTx)
            /\ \A k \in 1..Len(cumTx) :
                  /\ timeline[k].ts = ordered[k].ts
                  /\ IsRounded(timeline[k].cumulative, PrefixSum(ordered, k))
            /\ \A k \in 1..(Len(timeline) - 1) :
                  Millis(timeline[k].ts) <= Millis(timeline[k + 1].ts)
            /\ buildCumulativeTimeline(ordered) = timeline

\* A timeline of three transactions given out of order, two of them of the same
\* ts and different amounts, with a point whose cumulative is not the exact sum.
C2_Witness ==
    /\ TimelineBuilt
    /\ Len(cumTx) = 3
    /\ Millis(cumTx[1].ts) > Millis(cumTx[2].ts)
    /\ cumTx[2].ts = cumTx[3].ts
    /\ cumTx[2].amount # cumTx[3].amount
    /\ timeline[2].cumulative # cumTx[2].amount
    /\ timeline[1].ts = cumTx[2].ts

\* ---------------------------------------------------------------------------- C3
\* The entries attachDailyCumulativeClose must return: one per day of
\* [from, to], ascending.
C3_OnePerDay ==
    /\ Len(dailyCum) = IF cumPeriod.to >= cumPeriod.from
                       THEN cumPeriod.to - cumPeriod.from + 1 ELSE 0
    /\ \A k \in 1..Len(dailyCum) : dailyCum[k].date = cumPeriod.from + k - 1

\* 23:59:59.999 of a day in the configured zone.
C3_DayEnd(day) == (day + 1) * DayMs - 1

\* C3 as stated: one entry per day of [from, to] in ascending order, whose
\* cumulativeClose EQUALS the sum of the amounts of the transactions with
\* ts <= 23:59:59.999 of the day.
C3_DailyCloseExactSum ==
    SweepReturned =>
        /\ C3_OnePerDay
        /\ \A k \in 1..Len(dailyCum) :
              dailyCum[k].cumulativeClose = SumUpTo(cumTx, C3_DayEnd(dailyCum[k].date))

\* C3 amended: one entry per day of [from, to] in ascending order, whose
\* cumulativeClose is the sum of the amounts of the transactions with
\* ts <= 23:59:59.999 of the day (those before `from` included) ROUNDED TO TWO
\* DECIMALS.
C3_DailyCloseRoundedSum ==
    SweepReturned =>
        /\ C3_OnePerDay
        /\ \A k \in 1..Len(dailyCum) :
              IsRounded(dailyCum[k].cumulativeClose,
                        SumUpTo(cumTx, C3_DayEnd(dailyCum[k].date)))

\* A sweep over two days or more, with a transaction before `from`, one at
\* 23:59:59.999 of `from` and one at 00:00:00.000 of the next day.
C3_Witness ==
    /\ SweepReturned
    /\ Len(dailyCum) >= 2
    /\ \E a, b, c \in 1..Len(cumTx) :
          /\ Millis(cumTx[a].ts) < cumPeriod.from * DayMs
          /\ Millis(cumTx[b].ts) = (cumPeriod.from + 1) * DayMs - 1
          /\ Millis(cumTx[c].ts) = (cumPeriod.from + 1) * DayMs
    /\ dailyCum[1].cumulativeClose # dailyCum[2].cumulativeClose

\* ---------------------------------------------------------------------------- C4
\* C4: within the tolerance of 0.01, totals.credits is the sum of
\* transaction.credit, totals.debits the sum of transaction.debit, and
\* totals.net is credits - debits (of the sums and of the two fields) and the
\* sum of transaction.amount: each field is the exact value given to two
\* decimals; totals.expenses and totals.spending equal totals.debits.
C4_Totals ==
    Aggregated =>
        /\ IsRounded(totals.credits, SumCredit(transactions))
        /\ IsRounded(totals.debits, SumDebit(transactions))
        /\ IsRounded(totals.net, SumCredit(transactions) - SumDebit(transactions))
        /\ Within001(totals.net, totals.credits - totals.debits)
        /\ Within001(totals.net, SumAmount(transactions))
        /\ totals.expenses = totals.debits
        /\ totals.spending = totals.debits

\* Totals over transactions with credits and debits, with amounts of more than
\* two decimals, where net is not the difference of the rounded fields.
C4_Witness ==
    /\ Aggregated
    /\ Len(transactions) >= 2
    /\ totals.debits > 0
    /\ SumCredit(transactions) > 0
    /\ totals.net # totals.credits - totals.debits
\* ---------------------------------------------------------------------------- C5
\* The request has been answered with at least one transaction.
AnsweredNonEmpty == InParse /\ pc = "done" /\ Len(response.transactions) > 0

\* C5: in the response, the net of each day's bucket is the day's
\* cumulativeClose minus the cumulativeClose of the day before (0 before the
\* first day).
C5_DailyNetIsCloseDelta ==
    AnsweredNonEmpty =>
        \A k \in 1..Len(response.dailySpending) :
            response.dailySpending[k].net =
                response.dailySpending[k].cumulativeClose
                    - (IF k = 1 THEN 0 ELSE response.dailySpending[k - 1].cumulativeClose)

\* ---------------------------------------------------------------------------- C6
\* C6: when a transaction survives, the cumulativeClose of the last day of the
\* period is the cumulative of the last point of the timeline.
C6_LastCloseIsLastPoint ==
    AnsweredNonEmpty =>
        /\ Len(response.dailySpending) > 0
        /\ response.dailySpending[Len(response.dailySpending)].cumulativeClose =
               response.timeline[Len(response.timeline)].cumulative

\* ---------------------------------------------------------------------------- C7
\* The transactions of a day.
OfDay(txs, day) == SelectSeq(txs, LAMBDA t : t.date = day)

\* C7: each bucket's credit is the sum of transaction.credit and its debit the
\* sum of transaction.debit over the transactions of its day (each read to two
\* decimals, as the bucket's fields are), its net is credit - debit and its
\* amount is its debit.
C7_BucketSumsCreditAndDebit ==
    Aggregated =>
        \A k \in 1..Len(dailySpending) :
            LET b == dailySpending[k]
                day == OfDay(transactions, b.date)
            IN  /\ IsRounded(b.credit, SumCredit(day))
                /\ IsRounded(b.debit, SumDebit(day))
                /\ IsRounded(b.net, SumCredit(day) - SumDebit(day))
                /\ b.amount = b.debit

\* ---------------------------------------------------------------------------- C8
\* C8: the period of the response is {min date, max date} of the transactions,
\* dailySpending has one bucket per day from `from` to `to` in ascending
\* order, all-zero for the days without a transaction; with no transaction the
\* period is {null, null}, dailySpending and timeline are empty; the request
\* succeeds in both cases.
C8_PeriodAndBuckets ==
    (InParse /\ pc = "done") =>
        LET txs == response.transactions
            dates == {txs[k].date : k \in 1..Len(txs)}
            p == response.period
            ds == response.dailySpending
        IN  /\ response.status = 200
            /\ txs = transactions
            /\ IF Len(txs) = 0
               THEN /\ p = [from |-> NullDay, to |-> NullDay]
                    /\ ds = <<>>
                    /\ response.timeline = <<>>
               ELSE /\ p.from \in dates /\ \A x \in dates : p.from <= x
                    /\ p.to \in dates /\ \A x \in dates : x <= p.to
                    /\ Len(ds) = p.to - p.from + 1
                    /\ \A k \in 1..Len(ds) :
                          /\ ds[k].date = p.from + k - 1
                          /\ ds[k].date \notin dates =>
                                /\ ds[k].credit = 0 /\ ds[k].debit = 0
                                /\ ds[k].net = 0 /\ ds[k].amount = 0

\* An answered request whose rows were not in date order and left a day
\* without a transaction inside the period.
C8_Witness ==
    /\ InParse /\ pc = "done"
    /\ Len(response.transactions) = 2
    /\ response.transactions[1].date > response.transactions[2].date
    /\ Len(response.dailySpending) = 3
    /\ response.dailySpending[2].net = 0
    /\ response.dailySpending[1].net # 0

\* ---------------------------------------------------------------------------- C9
\* C9: the date of every emitted transaction is the calendar day of its ts in
\* the configured zone, whatever the offset of the host's wall clock.
C9_DateIsZoneDayOfTs ==
    \A k \in 1..Len(transactions) :
        transactions[k].date = (transactions[k].ts.d * DayMs + transactions[k].ts.ms) \div DayMs

\* --------------------------------------------------------------------------- C10
\* A magnitude cell read as a number, 0 when it does not read as one.
C10_Magnitude(cell) == IF cell.k \in {"num", "numStr"} THEN cell.n ELSE 0

\* The row at index (zero-based) has a date that resolves to an instant and an
\* income or expense magnitude > 0.
C10_Eligible(index) ==
    LET r == rowsFixed[index + 1]
    IN  /\ buildTsISO(pick(r, ColsDate), pick(r, ColsTime), index) # Null
        /\ \/ C10_Magnitude(pick(r, ColsDebitIsIncomeKeys)) > 0
           \/ C10_Magnitude(pick(r, ColsCreditIsExpenseKeys)) > 0

\* The indexes of the eligible rows among the first n.
C10_EligibleBelow(n) == {j \in 0..(n - 1) : C10_Eligible(j)}

RECURSIVE C10_SumOver(_, _)
C10_SumOver(js, keys) ==
    IF js = {} THEN 0
    ELSE LET j == CHOOSE x \in js : TRUE
         IN  C10_Magnitude(pick(rowsFixed[j + 1], keys)) + C10_SumOver(js \ {j}, keys)

\* C10: after i rows the transactions are exactly those of the eligible rows
\* among them, in row order (a skipped row adds none, and the rows after it are
\* still processed); the loop ends only after the last row; period and totals
\* come from the eligible rows alone; the request succeeds.
C10_RowsEmitExactlyWhenEligible ==
    /\ (InParse /\ pc \in {"rows", "done"}) =>
          LET el == C10_EligibleBelow(i)
          IN  /\ Len(transactions) = Cardinality(el)
              /\ \A j \in el :
                    LET t == transactions[Cardinality({j2 \in el : j2 <= j})]
                        r == rowsFixed[j + 1]
                    IN  /\ t.ts = buildTsISO(pick(r, ColsDate), pick(r, ColsTime), j)
                        /\ t.credit = C10_Magnitude(pick(r, ColsDebitIsIncomeKeys))
                        /\ t.debit = C10_Magnitude(pick(r, ColsCreditIsExpenseKeys))
              /\ pc = "done" =>
                    /\ (period = NullPeriod) = (el = {})
                    /\ IsRounded(totals.credits, C10_SumOver(el, ColsDebitIsIncomeKeys))
                    /\ IsRounded(totals.debits, C10_SumOver(el, ColsCreditIsExpenseKeys))
                    /\ response.status = 200
                    /\ response.transactions = transactions
                    /\ response.period = period
                    /\ response.totals = totals
    /\ (InParse /\ pc # "rows") => i = Len(rowsFixed)

\* An answered request whose first row was skipped and whose second row gave
\* the only transaction.
C10_Witness ==
    /\ InParse /\ pc = "done"
    /\ Len(rowsFixed) = 2
    /\ ~C10_Eligible(0)
    /\ C10_Eligible(1)
    /\ Len(response.transactions) = 1
    /\ response.period.from = response.transactions[1].date

\* --------------------------------------------------------------------------- C11
\* C11: every emitted transaction has credit >= 0 and debit >= 0, also when a
\* cell of the row reads as a negative number while the other is positive.
C11_CreditAndDebitNonNegative ==
    \A k \in 1..Len(transactions) :
        transactions[k].credit >= 0 /\ transactions[k].debit >= 0

\* --------------------------------------------------------------------------- C12
\* C12: whatever the interleaving of the requests, the answer of each request
\* is the result of parsing the file it uploaded itself.
C12_AnswerIsOfOwnUpload ==
    \A r \in Reqs :
        req[r].pc \in {"finally", "done"} =>
            req[r].response = ParseStatement(req[r].body, hostOff)

\* --------------------------------------------------------------------------- C13
\* The transactions of txs whose day is before cut, and those from cut on, each
\* in the order of txs.
C13_Before(txs, cut) == SelectSeq(txs, LAMBDA t : t.ts.d < cut)
C13_From(txs, cut) == SelectSeq(txs, LAMBDA t : t.ts.d >= cut)

\* txs with its elements j and j + 1 exchanged.
C13_Exchanged(txs, j) ==
    [k \in 1..Len(txs) |-> IF k = j THEN txs[j + 1] ELSE IF k = j + 1 THEN txs[j] ELSE txs[k]]

\* C13: the closes attachDailyCumulativeClose returned for a list are those it
\* returns for the two halves of the list split by date at any day and
\* concatenated in either order, and for the list with two neighbours
\* exchanged (hence for every order of the list).
C13_DailyCloseIgnoresInputOrder ==
    SweepReturned =>
        /\ dailyCum = attachDailyCumulativeClose(cumPeriod, cumTx)
        /\ \A cut \in {cumTx[k].ts.d : k \in 1..Len(cumTx)} :
              /\ attachDailyCumulativeClose(
                     cumPeriod, C13_Before(cumTx, cut) \o C13_From(cumTx, cut)) = dailyCum
              /\ attachDailyCumulativeClose(
                     cumPeriod, C13_From(cumTx, cut) \o C13_Before(cumTx, cut)) = dailyCum
        /\ \A j \in 1..(Len(cumTx) - 1) :
              attachDailyCumulativeClose(cumPeriod, C13_Exchanged(cumTx, j)) = dailyCum

\* A sweep over two days or more of three transactions given out of order, of
\* two days, two of them at the same instant with different amounts, whose
\* closes differ from day to day.
C13_Witness ==
    /\ SweepReturned
    /\ Len(cumTx) = 3
    /\ Millis(cumTx[1].ts) > Millis(cumTx[2].ts)
    /\ cumTx[2].ts = cumTx[3].ts
    /\ cumTx[2].amount # cumTx[3].amount
    /\ cumTx[1].ts.d # cumTx[2].ts.d
    /\ Len(dailyCum) >= 2
    /\ dailyCum[1].cumulativeClose # dailyCum[2].cumulativeClose
    /\ C13_Before(cumTx, cumTx[1].ts.d) \o C13_From(cumTx, cumTx[1].ts.d) # cumTx

\* --------------------------------------------------------------------------- C14
\* The request with the three rows has been answered.
C14_Answered == InParse /\ pc = "done" /\ rowsFixed = Scenario

\* The running balances of the timeline of the response.
C14_Balances == [k \in 1..Len(response.timeline) |-> response.timeline[k].cumulative]

C15_Matches(row, key) == {j \in 1..Len(row) : LowerTrim(row[j].h) = LowerTrim(key)}

\* The cell of the first column of the row matching the first candidate of
\* keys that any column matches; undefined when there is none.
C15_FirstOfBest(row, keys) ==
    LET cands == {n \in 1..Len(keys) : C15_Matches(row, keys[n]) # {}}
    IN  IF cands = {} THEN Undef
        ELSE LET best == CHOOSE n \in cands : \A n2 \in cands : n <= n2
                 cols == C15_Matches(row, keys[best])
             IN  row[CHOOSE j \in cols : \A j2 \in cols : j <= j2].v

\* The candidate lists the row loop resolves.
C15_KeyLists == {ColsDate, ColsTime, ColsDebitIsIncomeKeys, ColsCreditIsExpenseKeys}

\* C15: for every row the loop has gone through and every candidate list,
\* pick returns the cell of the first column of the row that matches the
\* candidate of highest priority with a matching column, undefined when no
\* column matches, and every emitted transaction has the instant of the date
\* and time cells found this way.
C15_PickFirstHeaderOfBestCandidate ==
    InParse =>
        /\ \A k \in 1..i : \A keys \in C15_KeyLists :
              pick(rowsFixed[k], keys) = C15_FirstOfBest(rowsFixed[k], keys)
        /\ (i = Len(rowsFixed) /\ Len(transactions) = Len(rowsFixed)) =>
              \A k \in 1..i :
                  transactions[k].ts =
                      buildTsISO(C15_FirstOfBest(rowsFixed[k], ColsDate),
                                 C15_FirstOfBest(rowsFixed[k], ColsTime), k - 1)

\* --------------------------------------------------------------------------- C16
\* The row has a date-only string for date and a time cell that is absent,
\* empty or no time.
C16_Untimed(r) ==
    /\ pick(r, ColsDate).k = "dateStr"
    /\ pick(r, ColsTime).k \in {"undef", "empty", "text"}

\* C16: the transaction of every such row the loop has gone through is at
\* (9 + index mod 9):00:00.000 of the day of its date cell, index being the
\* position of the row among all the rows of the sheet (the skipped ones
\* counted), so at an hour of 9..17.
C16_SynthesizedInstant ==
    InParse =>
        \A j \in 0..(i - 1) :
            C16_Untimed(rowsFixed[j + 1]) =>
                /\ C10_Eligible(j)
                /\ LET t == transactions[Cardinality({j2 \in C10_EligibleBelow(i) : j2 <= j})]
                   IN  /\ t.ts = [d |-> pick(rowsFixed[j + 1], ColsDate).d,
                                  ms |-> (9 + (j % 9)) * HourMs]
                       /\ t.ts.ms \div HourMs \in 9..17

\* A sheet of ten rows, some of them skipped, whose tenth row (index 9) is
\* untimed and was given 09:00.
C16_Witness ==
    /\ InParse
    /\ i = 10
    /\ C16_Untimed(rowsFixed[10])
    /\ Len(transactions) < 10
    /\ transactions[Len(transactions)].ts.ms = 9 * HourMs
    /\ \E j \in 0..8 : C16_Untimed(rowsFixed[j + 1]) /\ ~C16_Untimed(rowsFixed[j + 2])

\* --------------------------------------------------------------------------- C17
\* The day iterations a sweep over cumPeriod makes.
C17_Days == IF cumPeriod.to >= cumPeriod.from THEN cumPeriod.to - cumPeriod.from + 1 ELSE 0

\* In the loop: the pointer is within the list, the running total is the sum
\* of the elements before the pointer (each added once), and one entry has
\* been pushed per day gone through, never more than the days of the period.
C17_InLoop ==
    pc = "sweep" =>
        /\ ti >= 0 /\ ti <= Len(sorted)
        /\ running = PrefixSum(sorted, ti)
        /\ d = cumPeriod.from + Len(result)
        /\ Len(result) <= C17_Days

\* A step of the loop: the pointer stays or goes on by one, the running total
\* stays or grows by the one element the pointer went over, the entries pushed
\* are kept, and the step either goes over an element or ends a day.
C17_LoopStep ==
    (pc = "sweep" /\ pc' = "sweep") =>
        /\ sorted' = sorted
        /\ ti' \in {ti, ti + 1}
        /\ running' = IF ti' = ti THEN running ELSE running + sorted[ti + 1].amount
        /\ Len(result') \in {Len(result), Len(result) + 1}
        /\ SubSeq(result', 1, Len(result)) = result
        /\ (ti' = ti + 1) # (Len(result') = Len(result) + 1)

\* The loop has ended: it made to - from + 1 day iterations, none when
\* from > to.
C17_Ended ==
    (pc = "done") => (Len(dailyCum) = C17_Days /\ Len(result) = C17_Days)

\* C17: the daily-close computation is a single forward sweep: the pointer
\* into the sorted list never goes back and never passes the end of the list,
\* each amount is added to the running total once at most, the running total
\* is carried from day to day, and the loop ends after to - from + 1 day
\* iterations (none when from > to).
C17_SingleForwardSweep ==
    /\ [](C17_InLoop /\ C17_Ended)
    /\ [][C17_LoopStep]_vars
    /\ ((pc = "sweep") ~> (pc = "done"))

\* A sweep that ended after two days or more, having gone over the two
\* transactions of the list on different days.
C17_Witness ==
    /\ pc = "done"
    /\ Len(dailyCum) >= 2
    /\ Len(sorted) = 2
    /\ ti = 2
    /\ dailyCum[1].cumulativeClose # 0
    /\ dailyCum[2].cumulativeClose # dailyCum[1].cumulativeClose

====
